---- MODULE Spec2Model ----
(***************************************************************************)
(* Model of static/history.js: the dashboard load (four joined fetches),   *)
(* the trades pager, and the decision list/detail controller.              *)
(*                                                                         *)
(* Every event handler and every promise callback of the script runs to    *)
(* completion on the single JavaScript thread, so each is one action.      *)
(* A statement that throws ends its handler at that statement: the writes  *)
(* made before it stay, the ones after it never happen.                    *)
(*                                                                         *)
(* The dashboard flow (panes, pager) and the decision flow share no        *)
(* variable, so each is also checked under a specification of its own, in  *)
(* which the requests of the other flow stay unanswered.                   *)
(***************************************************************************)
EXTENDS Integers, Sequences, FiniteSets, TLC

\* ----------------------------------------------------------------- bounds
MaxLoads == 2        \* loadDashboard calls

MaxTradesReq == 2    \* loadTradesPage fetches

MaxPage == 3         \* largest page number the backend reports

MaxAIReq == 2        \* loadAIDecisions calls

MaxDecisions == 2    \* decisions in one /decisions response

MaxSignals == 3      \* signals of a decision, where every signal list is tried

MaxPoints == 3       \* points of a profit curve, where every point list is tried

MaxText == 2         \* characters of a free-text field, where every text is tried

\* ------------------------------------------------------- response bodies
\* What fetch(url).then(r => r.json()) hands on: the parsed JSON body.  The
\* HTTP status is carried along only to state properties about it; no
\* handler of the script reads it (r.ok and r.status are never consulted).
\*   kind "data"  : the JSON object of a 200 response
\*   kind "error" : the JSON object of a 500 response (none of the fields the
\*                  script reads is present)
\*   kind "null"  : the JSON value null
\* rows is the length of the list the body carries (points, positions,
\* trades), page/pages the TradePage fields, 0 standing for an absent field.
Body(st, k, n, p, q) == [status |-> st, kind |-> k, rows |-> n, page |-> p, pages |-> q]

NullBody == Body(200, "null", 0, 0, 0)

ErrBody == Body(500, "error", 0, 0, 0)

\* The backend is not trusted to echo the page it was asked for.
ServerPages == -1 .. MaxPage

StatsBodies == {Body(200, "data", 0, 0, 0), NullBody, ErrBody}

\* A point of the profit curve: a [ts, equity] pair or a {ts, equity}
\* object; the equity arrives as a number or as a numeric string.
Points ==
  {[shape |-> s, ts |-> 1, equity |-> e] :
     s \in {"tuple", "object"}, e \in {<<"number", 5>>, <<"string", 5>>}}

\* The /profit_curve body: data (the point list) and initial_equity, <<>>
\* when the field is absent.
ProfitBody(st, k, points, initial) ==
  [status |-> st, kind |-> k, rows |-> Len(points), page |-> 0, pages |-> 0,
   points |-> points, initial_equity |-> initial]

ProfitBodies ==
  {ProfitBody(200, "data", pts, <<>>) :
     pts \in {<<>>, <<[shape |-> "tuple", ts |-> 1, equity |-> <<"number", 5>>]>>}}
    \cup {ProfitBody(200, "null", <<>>, <<>>), ProfitBody(500, "error", <<>>, <<>>)}

\* every profit curve of up to MaxPoints points
CurveBodies ==
  {ProfitBody(200, "data", pts, i) :
     pts \in UNION {[1 .. k -> Points] : k \in 0 .. MaxPoints}, i \in {<<>>, <<100>>}}

PositionsBodies == {Body(200, "data", 1, 0, 0), NullBody, ErrBody}

TradePageBodies ==
  {Body(200, "data", 1, p, q) : p \in ServerPages, q \in {0, MaxPage}}
    \cup {NullBody, ErrBody}

Endpoints == {"/dashboard_stats", "/profit_curve", "/positions", "/completed_trades"}

ResultsOf(a, b, c, d) ==
  [e \in Endpoints |->
     CASE e = "/dashboard_stats" -> a
       [] e = "/profit_curve" -> b
       [] e = "/positions" -> c
       [] OTHER -> d]

\* The results array Promise.all hands to the .then callback.
Results ==
  {ResultsOf(a, b, c, d) : a \in StatsBodies, b \in ProfitBodies,
                           c \in PositionsBodies, d \in TradePageBodies}

\* a dashboard load whose profit curve is any curve and whose other three
\* bodies are plain
CurveResults ==
  {ResultsOf(Body(200, "data", 0, 0, 0), b, Body(200, "data", 1, 0, 0),
             Body(200, "data", 1, 1, 1)) : b \in CurveBodies}

\* ------------------------------------------------------------------ panes
\* The elements the script writes.  A pane records which response it was
\* rendered from (by), whether it shows content or the empty-state message,
\* and, for the trades pane, the page and pages the pager was built from.
DashPanes == {"stats", "profit_chart", "tab-positions", "tab-trades"}

PaneIds == DashPanes \cup {"pos-count", "trade-count", "dashboard-subtitle"}

\* A request: the flow that issued it, its number within the flow, and the
\* page of completed trades it asked for (0: none).
Src(f, n, p) == [flow |-> f, n |-> n, page |-> p]

NoSrc == Src("static", 0, 0)

Shown(src, what, p, q) == [by |-> src, shows |-> what, page |-> p, pages |-> q]

StaticPane == Shown(NoSrc, "static", 0, 0)

\* -------------------------------------------------------------- decisions
\* A signal keeps the position it had in the response as its symbol, so the
\* order a list arrived in can be read off the list.  Action "none" is an
\* absent (or empty) action field.
Actions == {"wait", "hold", "long", "short", "none"}

\* Free text is a sequence of characters; the empty sequence is an absent or
\* empty field.
Chars == {"a", "&", "<", ">"}

PlainText == <<"a">>

\* One element of signals: reason is free text, invalidations a list of texts.
MkSignal(i, a, reason, invalidations) ==
  [symbol |-> i, action |-> a, reason |-> reason, invalidations |-> invalidations]

MkSignals(as) == [i \in 1 .. Len(as) |-> MkSignal(i, as[i], PlainText, <<>>)]

SeqsUpTo(S, n) == UNION {[1 .. k -> S] : k \in 0 .. n}

\* One element of data.decisions; symbols_count 0 is a zero or absent field.
Template(c, as) == [symbols_count |-> c, signals |-> MkSignals(as)]

DecisionPool ==
  {Template(0, <<>>), Template(1, <<>>),
   Template(2, <<"wait", "long">>), Template(2, <<"long", "wait">>)}

AIBody(st, k, ds) == [status |-> st, kind |-> k, decisions |-> ds]

AINull == AIBody(200, "null", <<>>)

AIErr == AIBody(500, "error", <<>>)

\* the /decisions responses of the decision flow
AIBodies ==
  {AIBody(200, "data", ds) : ds \in SeqsUpTo(DecisionPool, MaxDecisions)}
    \cup {AINull, AIErr}

\* /decisions responses carrying one round with an arbitrary signal list
AnySignalsBodies ==
  {AIBody(200, "data", <<Template(Len(as) + 1, as)>>) : as \in SeqsUpTo(Actions, MaxSignals)}

Texts == SeqsUpTo(Chars, MaxText)

\* /decisions responses carrying one round with one signal whose free-text
\* fields are arbitrary
MarkupBodies ==
  {AIBody(200, "data",
          <<[symbols_count |-> 1, signals |-> <<MkSignal(1, "long", r, inv)>>]>>) :
     r \in Texts,
     inv \in {<<>>} \cup {<<x>> : x \in Texts} \cup {<<x, PlainText>> : x \in Texts}}

StaticList == [shows |-> "static", items |-> <<>>]

StaticDetail ==
  [shows |-> "static", load |-> 0, round |-> 0, rows |-> <<>>, reasons |-> <<>>,
   panels |-> <<>>]

VARIABLES
  booted,                 \* DOMContentLoaded has fired
  dashBatches,            \* the Promise.all joins still unsettled
  nDash,                  \* loadDashboard calls so far
  pane,                   \* the dashboard's DOM panes
  chart,                  \* what renderProfitChart did besides writing its
                          \* pane: echarts.init calls, resize listeners on
                          \* window, and the arrays of the last setOption
  currentTradesPage,
  tradesInflight,         \* loadTradesPage fetches without a response yet
  nTrades,                \* loadTradesPage fetches issued so far
  aiInflight,             \* loadAIDecisions fetches without a response yet
  nAI,                    \* loadAIDecisions calls so far
  currentDecisions,
  selectedDecisionIndex,
  aiSummary,              \* #ai-summary: the load it was written by
  decisionList,           \* #decision-list
  decisionDetail,         \* #decision-detail
  outcome                 \* how the last handler ended: quietly, with a
                          \* console.error call, or with an error nothing
                          \* caught; and the worst HTTP status it consumed

dashVars == <<dashBatches, nDash, pane, chart>>

pagerVars == <<currentTradesPage, tradesInflight, nTrades>>

aiVars == <<aiInflight, nAI, currentDecisions, selectedDecisionIndex, aiSummary,
            decisionList, decisionDetail>>

vars == <<booted, dashVars, pagerVars, aiVars, outcome>>

Quiet(st) == [how |-> "quiet", src |-> NoSrc, status |-> st]

Logged(src, st) == [how |-> "console.error", src |-> src, status |-> st]

Uncaught(src, st) == [how |-> "uncaught", src |-> src, status |-> st]

\* ---------------------------------------------------------- the renderers
\* A handler's progress: the panes as written so far, and whether a
\* statement has thrown.
Ok(p) == [pane |-> p, thrown |-> FALSE]

Throw(p) == [pane |-> p, thrown |-> TRUE]

\* the statement after r: skipped when r has thrown
AndThen(r, next) == IF r.thrown THEN r ELSE next

\* JavaScript's x || 1 on a number: 0 and absent (0 here) give 1.
OrOne(x) == IF x = 0 THEN 1 ELSE x

\* Reads profit.initial_equity, then stats.total_profit, before any write.
renderDashboardStats(p, src, stats, profit) ==
  IF profit.kind = "null" \/ stats.kind = "null"
    THEN Throw(p)
    ELSE Ok([p EXCEPT !["stats"] = Shown(src, "content", 0, 0)])

renderProfitChart(p, src, data) ==
  IF data.rows = 0
    THEN Ok([p EXCEPT !["profit_chart"] = Shown(src, "placeholder", 0, 0)])
    ELSE Ok([p EXCEPT !["profit_chart"] = Shown(src, "content", 0, 0)])

renderPositionsTable(p, src, data) ==
  IF data.rows = 0
    THEN Ok([p EXCEPT !["tab-positions"] = Shown(src, "placeholder", 0, 0)])
    ELSE Ok([p EXCEPT !["tab-positions"] = Shown(src, "content", 0, 0)])

\* (data && data.trades) guards a null body, data.total on the next line
\* does not.
renderTradesTable(p, src, data) ==
  IF data.kind = "null"
    THEN Throw(p)
    ELSE IF data.rows = 0
      THEN Ok([p EXCEPT !["tab-trades"] = Shown(src, "placeholder", 0, 0)])
      ELSE Ok([p EXCEPT !["tab-trades"] =
                 Shown(src, "content", OrOne(data.page), OrOne(data.pages))])

\* (data && data.initial_equity) || 0
initialOf(data) == IF data.initial_equity = <<>> THEN 0 ELSE data.initial_equity[1]

\* new Date(ts).toLocaleString(...): the label of a timestamp
xLabel(ts) == <<"label", ts>>

\* Number(v) of a number or of a numeric string
toNumber(v) == v[2]

\* arrays in which only pair-shaped points get a baseline entry
chartArraysPairBaseline(list, initial) ==
  [x |-> [i \in 1 .. Len(list) |-> xLabel(list[i].ts)],
   y |-> [i \in 1 .. Len(list) |-> toNumber(list[i].equity)],
   base |-> [i \in 1 .. Cardinality({j \in 1 .. Len(list) : list[j].shape = "tuple"})
               |-> initial]]

\* xData, yData and baseLine as the loop over list builds them; a pair and
\* an object point give the same ts and equity
chartArrays(list, initial) ==
  [x |-> [i \in 1 .. Len(list) |-> xLabel(list[i].ts)],
   y |-> [i \in 1 .. Len(list) |-> toNumber(list[i].equity)],
   base |-> [i \in 1 .. Len(list) |-> initial]]

NoChart == [inits |-> 0, listeners |-> 0, list |-> <<>>, initial_equity |-> <<>>,
            x |-> <<>>, y |-> <<>>, base |-> <<>>]

\* renderProfitChart(data) beyond its pane: an empty list returns before
\* echarts.init; otherwise one init, one setOption and one
\* window.addEventListener('resize', ...).  list and initial_equity keep
\* what the arrays were built from.
chartAfter(ch, data) ==
  IF data.rows = 0 THEN ch
  ELSE LET a == chartArrays(data.points, initialOf(data))
       IN [inits |-> ch.inits + 1, listeners |-> ch.listeners + 1,
           list |-> data.points, initial_equity |-> data.initial_equity,
           x |-> a.x, y |-> a.y, base |-> a.base]

\* The chart after the .then callback of loadDashboard: renderProfitChart
\* runs when renderDashboardStats has not thrown.
DashThenChart(ch, res) ==
  IF renderDashboardStats(pane, NoSrc, res["/dashboard_stats"], res["/profit_curve"]).thrown
    THEN ch
    ELSE chartAfter(ch, res["/profit_curve"])

\* The .then callback of loadDashboard's Promise.all.
DashThen(p, src, res) ==
  LET stats == res["/dashboard_stats"]
      profit == res["/profit_curve"]
      positions == res["/positions"]
      trades == res["/completed_trades"]
      s1 == renderDashboardStats(p, src, stats, profit)
      s2 == AndThen(s1, renderProfitChart(s1.pane, src, profit))
      s3 == AndThen(s2, renderPositionsTable(s2.pane, src, positions))
      s4 == AndThen(s3, renderTradesTable(s3.pane, src, trades))
      s5 == AndThen(s4,
              IF positions.kind = "null" THEN Throw(s4.pane)
              ELSE Ok([s4.pane EXCEPT !["pos-count"] = Shown(src, "content", 0, 0)]))
      s6 == AndThen(s5, Ok([s5.pane EXCEPT !["trade-count"] = Shown(src, "content", 0, 0)]))
  IN AndThen(s6, Ok([s6.pane EXCEPT !["dashboard-subtitle"] = Shown(src, "content", 0, 0)]))

\* The .then callback of loadTradesPage.
TradesThen(p, src, data) ==
  LET s1 == renderTradesTable(p, src, data)
  IN AndThen(s1, Ok([s1.pane EXCEPT !["trade-count"] = Shown(src, "content", 0, 0)]))

WorstStatus(res) == IF \E e \in Endpoints : res[e].status = 500 THEN 500 ELSE 200

\* ------------------------------------------------- the decision controller
isWait(s) == s.action = "wait" \/ s.action = "hold"

\* a comparator with the sign the wrong way round
compareSignalsWaitFirst(a, b) == (IF isWait(b) THEN 1 ELSE 0) - (IF isWait(a) THEN 1 ELSE 0)

\* a comparator that ranks every signal after every other
compareSignalsAlwaysAfter(a, b) == 1

\* the comparator handed to signals.sort
compareSignals(a, b) == (IF isWait(a) THEN 1 ELSE 0) - (IF isWait(b) THEN 1 ELSE 0)

\* Array.prototype.sort: stable (ECMAScript 2019), ordering by the
\* comparator; computed as an insertion sort that moves an element left only
\* past elements the comparator ranks strictly after it.
RECURSIVE InsertSorted(_, _)
InsertSorted(t, x) ==
  IF t = <<>> THEN <<x>>
  ELSE IF compareSignals(t[Len(t)], x) > 0
    THEN Append(InsertSorted(SubSeq(t, 1, Len(t) - 1), x), t[Len(t)])
    ELSE Append(t, x)

RECURSIVE sortSignals(_)
sortSignals(s) ==
  IF s = <<>> THEN <<>>
  ELSE InsertSorted(sortSignals(SubSeq(s, 1, Len(s) - 1)), s[Len(s)])

\* var action = s.action || 'wait'
shownAction(s) == IF s.action = "none" THEN "wait" ELSE s.action

\* the badge class of a row of the signal table
rowClass(s) ==
  IF shownAction(s) = "wait" \/ shownAction(s) = "hold" THEN "wait"
  ELSE IF shownAction(s) = "long" THEN "buy" ELSE "sell"

signalRow(s) == [symbol |-> s.symbol, action |-> shownAction(s), cls |-> rowClass(s)]

\* a filter that lets a zero count through
keepDecisionWithZero(d) == d.symbols_count >= 0

\* allDecisions.filter(d => (d.symbols_count || 0) > 0)
keepDecision(d) == d.symbols_count > 0

filterDecisions(ds) == SelectSeq(ds, keepDecision)

\* The decisions of a response, as the objects the script then holds.
\* firstShown records the order in which the detail pane first displayed the
\* decision's signals: <<>> until then, <<order>> from then on.
Loaded(seq, ds) ==
  [i \in 1 .. Len(ds) |->
     [load |-> seq, round |-> i, symbols_count |-> ds[i].symbols_count,
      signals |-> ds[i].signals, firstShown |-> <<>>]]

\* a list that highlights the item after the selected one
renderDecisionListOffByOne(cd, sel) ==
  IF Len(cd) = 0 THEN [shows |-> "placeholder", items |-> <<>>]
  ELSE [shows |-> "content",
        items |-> [i \in 1 .. Len(cd) |->
                     [load |-> cd[i].load, round |-> cd[i].round,
                      active |-> (i - 2 = sel)]]]

\* renderDecisionList(): reads currentDecisions and selectedDecisionIndex.
renderDecisionList(cd, sel) ==
  IF Len(cd) = 0 THEN [shows |-> "placeholder", items |-> <<>>]
  ELSE [shows |-> "content",
        items |-> [i \in 1 .. Len(cd) |->
                     [load |-> cd[i].load, round |-> cd[i].round,
                      active |-> (i - 1 = sel)]]]

RECURSIVE ReplaceAll(_, _, _)
\* String.prototype.replace(/c/g, to)
ReplaceAll(str, c, to) ==
  IF str = <<>> THEN <<>>
  ELSE (IF Head(str) = c THEN to ELSE <<Head(str)>>) \o ReplaceAll(Tail(str), c, to)

\* escapeHtml(str): '' for an empty or absent str, else & then < then >
\* replaced by their entities.
escapeHtml(str) ==
  IF str = <<>> THEN <<>>
  ELSE ReplaceAll(ReplaceAll(ReplaceAll(str, "&", <<"&", "a", "m", "p", ";">>),
                             "<", <<"&", "l", "t", ";">>),
                  ">", <<"&", "g", "t", ";">>)

RECURSIVE joinComma(_)
\* Array.prototype.join(', ')
joinComma(list) ==
  IF list = <<>> THEN <<>>
  ELSE IF Len(list) = 1 THEN list[1]
  ELSE list[1] \o <<",", " ">> \o joinComma(Tail(list))

\* the badge class of a block of the reason panel, from the raw action
reasonClass(s) ==
  IF s.action = "wait" \/ s.action = "hold" THEN "wait"
  ELSE IF s.action = "long" THEN "buy" ELSE "sell"

\* The block of the reason panel for one signal: what is inserted into the
\* markup for its reason and for its invalidations.
reasonBlock(s) ==
  [symbol |-> s.symbol, cls |-> reasonClass(s), reason |-> escapeHtml(s.reason),
   invalidations |-> joinComma(s.invalidations)]

\* The collapsible sections of the detail markup, in document order: reason,
\* Response.content, Request, Response JSON.
Collapsibles == {"reason", "content", "request", "response"}

\* A section as the markup creates it: body without class open, arrow
\* pointing right.
ClosedPanel == [open |-> FALSE, arrow |-> "right"]

\* a handler that only ever opens
toggleCollapsibleOpens(panel) == [open |-> TRUE, arrow |-> "down"]

\* toggleCollapsible(header) on the section of that header
toggleCollapsible(panel) ==
  IF panel.open THEN [open |-> FALSE, arrow |-> "right"]
  ELSE [open |-> TRUE, arrow |-> "down"]

\* renderDecisionDetail(d), d an element of currentDecisions.
renderDecisionDetail(d) ==
  LET sorted == sortSignals(d.signals)
  IN [shows |-> "content", load |-> d.load, round |-> d.round,
      rows |-> [i \in 1 .. Len(sorted) |-> signalRow(sorted[i])],
      reasons |-> [i \in 1 .. Len(sorted) |-> reasonBlock(sorted[i])],
      panels |-> [c \in Collapsibles |-> ClosedPanel]]

\* renderDecisionDetail(undefined)
DetailPlaceholder ==
  [shows |-> "placeholder", load |-> 0, round |-> 0, rows |-> <<>>, reasons |-> <<>>,
   panels |-> <<>>]

\* signals.sort sorts the array the decision holds.
afterDetail(d) ==
  LET sorted == sortSignals(d.signals)
  IN [d EXCEPT !.signals = sorted,
               !.firstShown = IF @ = <<>>
                                THEN <<[i \in 1 .. Len(sorted) |-> sorted[i].symbol]>>
                                ELSE @]

\* a selection that always renders the detail of the first decision
selectDecisionDetailOfFirst(cd, index) ==
  [sel |-> index, list |-> renderDecisionList(cd, index),
   detail |-> renderDecisionDetail(cd[1]),
   cd |-> [cd EXCEPT ![1] = afterDetail(cd[1])]]

\* selectDecision(index) on the decisions cd: the new index, list, detail
\* and decisions.
selectDecision(cd, index) ==
  IF index + 1 \in DOMAIN cd
    THEN [sel |-> index, list |-> renderDecisionList(cd, index),
          detail |-> renderDecisionDetail(cd[index + 1]),
          cd |-> [cd EXCEPT ![index + 1] = afterDetail(cd[index + 1])]]
    ELSE [sel |-> index, list |-> renderDecisionList(cd, index),
          detail |-> DetailPlaceholder, cd |-> cd]

\* ------------------------------------------------------------------ state
Init ==
  /\ booted = FALSE
  /\ dashBatches = {}
  /\ nDash = 0
  /\ pane = [x \in PaneIds |-> StaticPane]
  /\ chart = NoChart
  /\ currentTradesPage = 1
  /\ tradesInflight = {}
  /\ nTrades = 0
  /\ aiInflight = {}
  /\ nAI = 0
  /\ currentDecisions = <<>>
  /\ selectedDecisionIndex = 0
  /\ aiSummary = NoSrc
  /\ decisionList = StaticList
  /\ decisionDetail = StaticDetail
  /\ outcome = Quiet(0)

\* loadDashboard(): four fetches joined by Promise.all.
loadDashboard ==
  /\ nDash < MaxLoads
  /\ nDash' = nDash + 1
  /\ dashBatches' = dashBatches \cup {[id |-> nDash + 1, pending |-> Endpoints]}
  /\ UNCHANGED <<pane, chart>>

\* a guard that lets page 0 through
loadTradesPageFromZero(page) ==
  IF page < 0
    THEN UNCHANGED pagerVars
    ELSE /\ nTrades < MaxTradesReq
         /\ currentTradesPage' = page
         /\ nTrades' = nTrades + 1
         /\ tradesInflight' = tradesInflight \cup {[seq |-> nTrades + 1, page |-> page]}

\* loadTradesPage(page)
loadTradesPage(page) ==
  IF page < 1
    THEN UNCHANGED pagerVars
    ELSE /\ nTrades < MaxTradesReq
         /\ currentTradesPage' = page
         /\ nTrades' = nTrades + 1
         /\ tradesInflight' = tradesInflight \cup {[seq |-> nTrades + 1, page |-> page]}

\* loadAIDecisions(): one fetch.
loadAIDecisions ==
  /\ nAI < MaxAIReq
  /\ nAI' = nAI + 1
  /\ aiInflight' = aiInflight \cup {nAI + 1}
  /\ UNCHANGED <<currentDecisions, selectedDecisionIndex, aiSummary, decisionList,
                 decisionDetail>>

DOMContentLoaded ==
  /\ ~booted
  /\ booted' = TRUE
  /\ loadDashboard
  /\ loadAIDecisions
  /\ outcome' = Quiet(0)
  /\ UNCHANGED pagerVars

\* showPage('dashboard')
ShowDashboard ==
  /\ booted
  /\ loadDashboard
  /\ outcome' = Quiet(0)
  /\ UNCHANGED <<booted, pagerVars, aiVars>>

\* showPage('ai')
ShowAI ==
  /\ booted
  /\ loadAIDecisions
  /\ outcome' = Quiet(0)
  /\ UNCHANGED <<booted, dashVars, pagerVars>>

\* One of the four fetches of a join fulfils.  The parsed bodies sit in the
\* promises until the last one fulfils and are read only by the .then
\* callback, which runs in the same turn as the last fulfilment: the join
\* keeps the set of fetches still pending, and the bodies enter the model
\* when the callback reads them.
DashResponseFrom(results) ==
  \E b \in dashBatches : \E e \in b.pending :
    /\ IF b.pending # {e}
         THEN /\ dashBatches' = (dashBatches \ {b}) \cup {[b EXCEPT !.pending = @ \ {e}]}
              /\ outcome' = Quiet(0)
              /\ UNCHANGED <<pane, chart>>
         ELSE \E res \in results :
                LET r == DashThen(pane, Src("dash", b.id, 1), res)
                IN /\ dashBatches' = dashBatches \ {b}
                   /\ pane' = r.pane
                   /\ chart' = DashThenChart(chart, res)
                   /\ outcome' = IF r.thrown
                                   THEN Logged(Src("dash", b.id, 1), WorstStatus(res))
                                   ELSE Quiet(WorstStatus(res))
    /\ UNCHANGED <<booted, nDash, pagerVars, aiVars>>

DashResponse == DashResponseFrom(Results)

\* a load whose profit curve is any curve
DashResponseAnyCurve == DashResponseFrom(CurveResults)

\* One of the four fetches of a join rejects (network error, or a body that
\* is not JSON): Promise.all rejects at once and the catch logs.  The other
\* responses of the join have no effect when they arrive.
DashFailure ==
  \E b \in dashBatches :
    /\ dashBatches' = dashBatches \ {b}
    /\ outcome' = Logged(Src("dash", b.id, 1), 0)
    /\ UNCHANGED <<booted, nDash, pane, chart, pagerVars, aiVars>>

TradesPane == pane["tab-trades"]

\* The pager buttons exist only in a rendered page; a disabled button
\* fires no click.
ClickPrev ==
  /\ TradesPane.shows = "content"
  /\ ~(TradesPane.page <= 1)
  /\ loadTradesPage(TradesPane.page - 1)
  /\ outcome' = Quiet(0)
  /\ UNCHANGED <<booted, dashVars, aiVars>>

\* a next button that is never disabled
ClickNextAlways ==
  /\ TradesPane.shows = "content"
  /\ loadTradesPage(TradesPane.page + 1)
  /\ outcome' = Quiet(0)
  /\ UNCHANGED <<booted, dashVars, aiVars>>

ClickNext ==
  /\ TradesPane.shows = "content"
  /\ ~(TradesPane.page >= TradesPane.pages)
  /\ loadTradesPage(TradesPane.page + 1)
  /\ outcome' = Quiet(0)
  /\ UNCHANGED <<booted, dashVars, aiVars>>

\* a pager that drops the response to any request but the latest
TradesResponseLatestOnly ==
  \E r \in tradesInflight : \E body \in TradePageBodies :
    LET res == IF r.seq = nTrades THEN TradesThen(pane, Src("page", r.seq, r.page), body)
               ELSE Ok(pane)
    IN /\ tradesInflight' = tradesInflight \ {r}
       /\ pane' = res.pane
       /\ outcome' = IF res.thrown THEN Uncaught(Src("page", r.seq, r.page), body.status)
                     ELSE Quiet(body.status)
       /\ UNCHANGED <<booted, dashBatches, nDash, chart, currentTradesPage, nTrades, aiVars>>

TradesResponse ==
  \E r \in tradesInflight : \E body \in TradePageBodies :
    LET res == TradesThen(pane, Src("page", r.seq, r.page), body)
    IN /\ tradesInflight' = tradesInflight \ {r}
       /\ pane' = res.pane
       /\ outcome' = IF res.thrown THEN Uncaught(Src("page", r.seq, r.page), body.status)
                     ELSE Quiet(body.status)
       /\ UNCHANGED <<booted, dashBatches, nDash, chart, currentTradesPage, nTrades, aiVars>>

\* The fetch rejects; loadTradesPage has no catch.
TradesFailure ==
  \E r \in tradesInflight :
    /\ tradesInflight' = tradesInflight \ {r}
    /\ outcome' = Uncaught(Src("page", r.seq, r.page), 0)
    /\ UNCHANGED <<booted, dashVars, currentTradesPage, nTrades, aiVars>>

\* The .then callback of loadAIDecisions on the body data of request seq;
\* first is the index it selects when a decision remains.
AIThenSelecting(seq, data, first) ==
  IF data.kind = "null"
    THEN /\ outcome' = Logged(Src("ai", seq, 0), data.status)
         /\ UNCHANGED <<currentDecisions, selectedDecisionIndex, aiSummary,
                        decisionList, decisionDetail>>
    ELSE LET cd == filterDecisions(Loaded(seq, data.decisions))
             s == selectDecision(cd, first)
         IN /\ aiSummary' = Src("ai", seq, 0)
            /\ outcome' = Quiet(data.status)
            /\ IF Len(cd) > 0
                 THEN /\ currentDecisions' = s.cd
                      /\ selectedDecisionIndex' = s.sel
                      /\ decisionList' = s.list
                      /\ decisionDetail' = s.detail
                 ELSE /\ currentDecisions' = cd
                      /\ decisionList' = renderDecisionList(cd, selectedDecisionIndex)
                      /\ UNCHANGED <<selectedDecisionIndex, decisionDetail>>

\* a callback that selects the index selected before the load
AIThenKeepsSelection(seq, data) == AIThenSelecting(seq, data, selectedDecisionIndex)

AIThen(seq, data) == AIThenSelecting(seq, data, 0)

AIResponseFrom(bodies) ==
  \E seq \in aiInflight : \E data \in bodies :
    /\ aiInflight' = aiInflight \ {seq}
    /\ AIThen(seq, data)
    /\ UNCHANGED <<booted, dashVars, pagerVars, nAI>>

AIResponse == AIResponseFrom(AIBodies)

\* a response whose one round carries any signal list
AIResponseAnySignals == AIResponseFrom(AnySignalsBodies)

\* The fetch rejects: the catch logs.
AIFailure ==
  \E seq \in aiInflight :
    /\ aiInflight' = aiInflight \ {seq}
    /\ outcome' = Logged(Src("ai", seq, 0), 0)
    /\ UNCHANGED <<booted, dashVars, pagerVars, nAI, currentDecisions,
                   selectedDecisionIndex, aiSummary, decisionList, decisionDetail>>

\* a response whose one signal carries any free text
AIResponseMarkup == AIResponseFrom(MarkupBodies)

\* A click on item i of the rendered list: onclick="selectDecision(i)".
ClickDecisionAt(i) ==
  /\ i \in 0 .. Len(decisionList.items) - 1
  /\ LET s == selectDecision(currentDecisions, i)
     IN /\ currentDecisions' = s.cd
        /\ selectedDecisionIndex' = s.sel
        /\ decisionList' = s.list
        /\ decisionDetail' = s.detail
        /\ outcome' = Quiet(0)
        /\ UNCHANGED <<booted, dashVars, pagerVars, aiInflight, nAI, aiSummary>>

ClickDecision == \E i \in 0 .. MaxDecisions : ClickDecisionAt(i)

\* A click on the header of section c of the rendered detail:
\* onclick="toggleCollapsible(this)".
ToggleCollapsibleAt(c) ==
  /\ c \in DOMAIN decisionDetail.panels
  /\ decisionDetail' = [decisionDetail EXCEPT !.panels[c] = toggleCollapsible(@)]
  /\ outcome' = Quiet(0)
  /\ UNCHANGED <<booted, dashVars, pagerVars, aiInflight, nAI, currentDecisions,
                 selectedDecisionIndex, aiSummary, decisionList>>

ToggleCollapsible == \E c \in Collapsibles : ToggleCollapsibleAt(c)

\* --------------------------------------------------------- specifications
Next ==
  \/ DOMContentLoaded
  \/ ShowDashboard
  \/ ShowAI
  \/ DashResponse
  \/ DashFailure
  \/ ClickPrev
  \/ ClickNext
  \/ TradesResponse
  \/ TradesFailure
  \/ AIResponse
  \/ AIFailure
  \/ ClickDecision
  \/ ToggleCollapsible

Spec == Init /\ [][Next]_vars

\* the dashboard join, with reloads
NextDashboard ==
  \/ DOMContentLoaded
  \/ ShowDashboard
  \/ DashResponse
  \/ DashFailure

SpecDashboard == Init /\ [][NextDashboard]_vars

\* the first dashboard load and the trades pager
NextPager ==
  \/ DOMContentLoaded
  \/ DashResponse
  \/ DashFailure
  \/ ClickPrev
  \/ ClickNext
  \/ TradesResponse
  \/ TradesFailure

SpecPager == Init /\ [][NextPager]_vars

\* the decision list/detail controller
NextDecisions ==
  \/ DOMContentLoaded
  \/ ShowAI
  \/ AIResponse
  \/ AIFailure
  \/ ClickDecision

SpecDecisions == Init /\ [][NextDecisions]_vars

\* the detail view over every signal list
NextSignals ==
  \/ DOMContentLoaded
  \/ AIResponseAnySignals
  \/ ClickDecision

SpecSignals == Init /\ [][NextSignals]_vars

\* the page after DOMContentLoaded: the dashboard load and the decision list
NextSelect ==
  \/ DOMContentLoaded
  \/ DashResponse
  \/ AIResponse
  \/ ClickDecision

SpecSelect == Init /\ [][NextSelect]_vars

\* the detail view and its collapsible sections
NextPanels ==
  \/ DOMContentLoaded
  \/ AIResponse
  \/ ClickDecision
  \/ ToggleCollapsible

SpecPanels == Init /\ [][NextPanels]_vars

\* the detail view over every free text
NextMarkup ==
  \/ DOMContentLoaded
  \/ AIResponseMarkup
  \/ ClickDecision

SpecMarkup == Init /\ [][NextMarkup]_vars

\* the first dashboard load over every profit curve
NextChart ==
  \/ DOMContentLoaded
  \/ DashResponseAnyCurve

SpecChart == Init /\ [][NextChart]_vars

\* ------------------------------------------------------------- properties
\* the four panes a dashboard load renders that show join b's content
Authored(p, b) == {x \in DashPanes : p[x].by.flow = "dash" /\ p[x].by.n = b}

\* C1: a pane comes to show the content of a dashboard load only in the step
\* in which the last of the load's four fetches resolves, and after that
\* step all four panes (stats, chart, positions, trades) show that load's
\* content: no state shows the load in only some of them.
C1_JoinRendersAllOrNothing ==
  [][\A b \in 1 .. MaxLoads :
       Authored(pane', b) \ Authored(pane, b) # {}
         => /\ \E j \in dashBatches : j.id = b /\ Cardinality(j.pending) = 1
            /\ Authored(pane', b) = DashPanes]_vars

\* C2: a dashboard load that ends in its catch (a fetch failed, or the
\* handling of the four bodies threw) has changed no pane, counter or
\* subtitle.
C2_FailedLoadChangesNothing ==
  [][(outcome'.how = "console.error" /\ outcome'.src.flow = "dash") => pane' = pane]_vars

\* C3: a handler that consumed a response with a non-success status renders
\* nothing and leaves the client state as it was.
C3_ErrorStatusChangesNothing ==
  [][outcome'.status = 500
       => UNCHANGED <<pane, currentTradesPage, currentDecisions, selectedDecisionIndex,
                      aiSummary, decisionList, decisionDetail>>]_vars

\* C4: currentDecisions holds no decision whose symbols_count is 0 or absent,
\* and the rendered list has one item per decision held.
C4_NoEmptyRound ==
  /\ \A i \in DOMAIN currentDecisions : currentDecisions[i].symbols_count > 0
  /\ Len(decisionList.items) = Len(currentDecisions)

\* a round of the response in front of a kept one was filtered out
C4_Witness ==
  \E i \in DOMAIN currentDecisions : currentDecisions[i].round > i

\* C5: while currentDecisions is non-empty, selectedDecisionIndex is an index
\* into it and exactly one item of the rendered list is highlighted, the
\* selected one.
C5_SelectionValid ==
  Len(currentDecisions) > 0 =>
    /\ selectedDecisionIndex \in 0 .. Len(currentDecisions) - 1
    /\ Len(decisionList.items) = Len(currentDecisions)
    /\ {i \in DOMAIN decisionList.items : decisionList.items[i].active}
         = {selectedDecisionIndex + 1}

\* the second item of a reloaded list has been selected
C5_Witness ==
  /\ Len(currentDecisions) = 2
  /\ currentDecisions[1].load = 2
  /\ selectedDecisionIndex = 1
  /\ decisionList.items[2].active

\* C6 as stated: every handled /decisions response leaves
\* selectedDecisionIndex at 0, however many decisions remain.
C6_LoadResetsSelection ==
  [][aiSummary' # aiSummary => selectedDecisionIndex' = 0]_vars

\* C6, amended: a handled /decisions response that leaves at least one
\* decision sets selectedDecisionIndex to 0; one that leaves none keeps the
\* index it found.
C6_LoadWithDecisionsResetsSelection ==
  [][aiSummary' # aiSummary =>
       IF Len(currentDecisions') > 0
         THEN selectedDecisionIndex' = 0
         ELSE selectedDecisionIndex' = selectedDecisionIndex]_vars

\* a second load has just been handled and left decisions
C6_Witness ==
  /\ aiSummary.n = 2
  /\ outcome = Quiet(200)
  /\ Len(currentDecisions) > 0
  /\ currentDecisions[1].load = 2
  /\ selectedDecisionIndex = 0

\* C7: a pager click that asks for a page below 1 changes neither
\* currentTradesPage nor the requests in flight nor any pane, and no request
\* in flight ever asks for a page below 1.
C7_PageBelowOneIsNoOp ==
  [][/\ ((ClickPrev /\ TradesPane.page - 1 < 1) \/ (ClickNext /\ TradesPane.page + 1 < 1))
          => UNCHANGED <<pagerVars, pane>>
     /\ \A r \in tradesInflight' : r.page >= 1
     /\ currentTradesPage' >= 1]_vars

\* the enabled next button of a page numbered below 0 has been clicked, and
\* nothing was requested
C7_Witness ==
  /\ TradesPane.shows = "content"
  /\ TradesPane.page < TradesPane.pages
  /\ TradesPane.page + 1 < 1
  /\ outcome = Quiet(0)
  /\ nTrades = 0
  /\ tradesInflight = {}

\* C8: issuing a trades request removes none of the requests in flight, a
\* response that arrives removes only its own request, and a response that
\* the renderer accepts is shown in the trades pane whether or not a later
\* request has been issued.
C8_LastArrivalWins ==
  [][/\ nTrades' # nTrades => tradesInflight \subseteq tradesInflight'
     /\ \A r \in tradesInflight \ tradesInflight' :
          /\ tradesInflight' = tradesInflight \ {r}
          /\ outcome'.how = "quiet" => TradesPane'.by = Src("page", r.seq, r.page)]_vars

\* nothing is in flight and the pane shows the response to a request for a
\* page other than the one requested last
C8_Witness ==
  /\ tradesInflight = {}
  /\ outcome.how = "quiet"
  /\ TradesPane.by.flow = "page"
  /\ TradesPane.by.page # currentTradesPage

\* the stored signal of the selected decision with a given symbol
C9_SignalOf(sym) ==
  LET sigs == currentDecisions[selectedDecisionIndex + 1].signals
  IN CHOOSE s \in {sigs[k] : k \in DOMAIN sigs} : s.symbol = sym

C9_IsWaitRow(r) == C9_SignalOf(r.symbol).action \in {"wait", "hold"}

\* C9: the rows of the detail view are a permutation of the decision's
\* signals, no wait/hold row stands before a row of another action, and two
\* rows of the same kind stand in the order their signals arrived in.
C9_StablePartition ==
  (decisionDetail.shows = "content" /\ selectedDecisionIndex + 1 \in DOMAIN currentDecisions) =>
    LET rows == decisionDetail.rows
        n == Len(currentDecisions[selectedDecisionIndex + 1].signals)
    IN /\ Len(rows) = n
       /\ {rows[i].symbol : i \in DOMAIN rows} = 1 .. n
       /\ \A i, j \in DOMAIN rows :
            i < j => /\ ~(C9_IsWaitRow(rows[i]) /\ ~C9_IsWaitRow(rows[j]))
                     /\ (C9_IsWaitRow(rows[i]) = C9_IsWaitRow(rows[j])
                           => rows[i].symbol < rows[j].symbol)

\* three signals are shown, and not in the order they arrived in
C9_Witness ==
  /\ decisionDetail.shows = "content"
  /\ Len(decisionDetail.rows) = 3
  /\ \E i, j \in DOMAIN decisionDetail.rows :
       i < j /\ decisionDetail.rows[i].symbol > decisionDetail.rows[j].symbol

\* C10: every decision held keeps its signals in the order they were loaded
\* in (a signal's symbol is its position in the response).
C10_StoredOrderKept ==
  \A i \in DOMAIN currentDecisions :
    \A k \in DOMAIN currentDecisions[i].signals :
      currentDecisions[i].signals[k].symbol = k

\* C11: selectDecision(i), i in range, sets selectedDecisionIndex to i, renders
\* the list with item i (and no other) highlighted and the detail pane for
\* decision i, and changes nothing else: no request is issued, and
\* currentTradesPage, the dashboard panes and the decisions held in
\* currentDecisions, in their order, are as before.
C11_SelectOnlySelects ==
  [][\A i \in 0 .. MaxDecisions :
       ClickDecisionAt(i) =>
         /\ i + 1 \in DOMAIN currentDecisions
         /\ selectedDecisionIndex' = i
         /\ Len(decisionList'.items) = Len(currentDecisions)
         /\ \A k \in DOMAIN currentDecisions :
              /\ decisionList'.items[k].active <=> (k = i + 1)
              /\ decisionList'.items[k].load = currentDecisions[k].load
              /\ decisionList'.items[k].round = currentDecisions[k].round
         /\ decisionDetail'.shows = "content"
         /\ decisionDetail'.load = currentDecisions[i + 1].load
         /\ decisionDetail'.round = currentDecisions[i + 1].round
         /\ UNCHANGED <<dashBatches, nDash, tradesInflight, nTrades, aiInflight, nAI>>
         /\ UNCHANGED <<currentTradesPage, pane, aiSummary>>
         /\ Len(currentDecisions') = Len(currentDecisions)
         /\ \A k \in DOMAIN currentDecisions :
              /\ currentDecisions'[k].load = currentDecisions[k].load
              /\ currentDecisions'[k].round = currentDecisions[k].round
              /\ currentDecisions'[k].symbols_count = currentDecisions[k].symbols_count]_vars

\* the second decision was selected by a click while the dashboard shows
\* what its load rendered
C11_Witness ==
  /\ selectedDecisionIndex = 1
  /\ decisionList.shows = "content"
  /\ decisionList.items[2].active
  /\ decisionDetail.round = currentDecisions[2].round
  /\ pane["stats"].shows = "content"
  /\ TradesPane.shows = "content"
  /\ TradesPane.by.flow = "dash"

\* C12: toggleCollapsible on one section flips that section's open state and
\* sets its arrow to match, leaves the other three sections and the rest of
\* the detail as they were, whatever toggles came before; and from every
\* state the sections can be in, toggling a section twice gives its state back.
C12_TogglesIndependent ==
  [][\A c \in Collapsibles :
       ToggleCollapsibleAt(c) =>
         /\ decisionDetail'.panels[c].open = ~decisionDetail.panels[c].open
         /\ decisionDetail'.panels[c].arrow =
              (IF decisionDetail'.panels[c].open THEN "down" ELSE "right")
         /\ \A o \in Collapsibles \ {c} :
              decisionDetail'.panels[o] = decisionDetail.panels[o]
         /\ decisionDetail'.rows = decisionDetail.rows
         /\ decisionDetail'.round = decisionDetail.round
         /\ toggleCollapsible(decisionDetail'.panels[c]) = decisionDetail.panels[c]]_vars

\* two sections are open and two closed, after toggles of different sections
C12_Witness ==
  /\ decisionDetail.shows = "content"
  /\ decisionDetail.panels["reason"].open
  /\ decisionDetail.panels["request"].open
  /\ ~decisionDetail.panels["content"].open
  /\ ~decisionDetail.panels["response"].open
  /\ decisionDetail.panels["reason"].arrow = "down"

\* C13: in every load flow a fetch that fails is caught: no handler ends
\* with an error that nothing caught (an unhandled rejection).
C13_FailuresCaught == outcome.how # "uncaught"

\* text in which no < or > occurs and every & begins one of the entities
\* escapeHtml writes
C14_Escaped(text) ==
  \A i \in DOMAIN text :
    /\ text[i] \notin {"<", ">"}
    /\ text[i] = "&" =>
         \E e \in {<<"a", "m", "p", ";">>, <<"l", "t", ";">>, <<"g", "t", ";">>} :
           /\ i + Len(e) <= Len(text)
           /\ SubSeq(text, i + 1, i + Len(e)) = e

\* C14: every backend-supplied free text the detail markup holds (the
\* signal's reason, its invalidation conditions) went through escapeHtml: it
\* holds no <, no > and no & other than the start of an entity.
C14_MarkupEscaped ==
  \A i \in DOMAIN decisionDetail.reasons :
    /\ C14_Escaped(decisionDetail.reasons[i].reason)
    /\ C14_Escaped(decisionDetail.reasons[i].invalidations)

\* the requests a step issues from the pager of the rendered trade page
C15_Issued == tradesInflight' \ tradesInflight

\* what C15 says of the controls themselves: a rendered page never shows
\* the absent value for page or pages (both default to 1), "previous" requests page-1 and only when page > 1, "next" requests
\* page+1 and only when page < pages
C15_Controls ==
  /\ TradesPane.shows = "content" => (TradesPane.page # 0 /\ TradesPane.pages # 0)
  /\ \A r \in C15_Issued :
       /\ TradesPane.shows = "content"
       /\ r.page \in {TradesPane.page - 1, TradesPane.page + 1}
       /\ r.page = TradesPane.page - 1 => ~(TradesPane.page <= 1)
       /\ r.page = TradesPane.page + 1 => ~(TradesPane.page >= TradesPane.pages)

\* C15 as stated: the controls are disabled as described, and every request
\* an enabled control issues is for a page within 1..pages.
C15_ControlsStayInRange ==
  [][/\ C15_Controls
     /\ \A r \in C15_Issued : r.page \in 1 .. TradesPane.pages]_vars

\* C15 amended: the controls are disabled as described; the requests an
\* enabled control issues are for a page within 1..pages when the rendered
\* page number itself lies within 1..pages.
C15_ControlsStayInRangeOfConsistentPage ==
  [][/\ C15_Controls
     /\ \A r \in C15_Issued :
          TradesPane.page \in 1 .. TradesPane.pages => r.page \in 1 .. TradesPane.pages]_vars

\* from a page in the middle both controls were clicked: the requests for
\* the page before and the page after are in flight
C15_Witness ==
  /\ TradesPane.shows = "content"
  /\ TradesPane.page \in 2 .. TradesPane.pages - 1
  /\ \E r \in tradesInflight : r.page = TradesPane.page - 1
  /\ \E r \in tradesInflight : r.page = TradesPane.page + 1

\* C16: for every non-empty point list, of pairs, objects or both, the
\* x-label, equity and baseline arrays renderProfitChart builds have the
\* length of the list, and every baseline element is initial_equity, 0 when
\* the field is absent.
C16_ChartArraysAligned ==
  chart.inits > 0 =>
    /\ Len(chart.list) > 0
    /\ Len(chart.x) = Len(chart.list)
    /\ Len(chart.y) = Len(chart.list)
    /\ Len(chart.base) = Len(chart.list)
    /\ \A i \in DOMAIN chart.base :
         chart.base[i] = (IF chart.initial_equity = <<>> THEN 0 ELSE chart.initial_equity[1])

\* a chart was built from a list mixing an object point and a pair
C16_Witness ==
  /\ chart.inits > 0
  /\ Len(chart.list) = 2
  /\ chart.list[1].shape = "object"
  /\ chart.list[2].shape = "tuple"
  /\ chart.initial_equity = <<>>
  /\ chart.base = <<0, 0>>

\* C17: a step that takes currentDecisions from non-empty to empty is the
\* handling of a successful (status 200) loadAIDecisions response; every
\* other step, a failed decision load included, leaves the same decisions in
\* the same order.
C17_ListedLeftOnlyByEmptyLoad ==
  [][Len(currentDecisions) > 0 =>
       \/ /\ aiSummary' # aiSummary
          /\ outcome'.how = "quiet"
          /\ outcome'.status = 200
       \/ /\ Len(currentDecisions') = Len(currentDecisions)
          /\ \A k \in DOMAIN currentDecisions :
               /\ currentDecisions'[k].load = currentDecisions[k].load
               /\ currentDecisions'[k].round = currentDecisions[k].round]_vars

\* C18: however many dashboard loads rendered a non-empty profit curve,
\* exactly one resize listener is registered for the chart; while no load
\* has rendered one, no chart is initialized and no listener registered.
C18_OneResizeListener == chart.listeners = (IF chart.inits > 0 THEN 1 ELSE 0)

\* C19: while currentDecisions is non-empty the detail pane shows the
\* selected decision; while it is empty the detail pane shows no decision.
C19_DetailMatchesSelection ==
  IF Len(currentDecisions) > 0
    THEN /\ selectedDecisionIndex + 1 \in DOMAIN currentDecisions
         /\ decisionDetail.shows = "content"
         /\ decisionDetail.load = currentDecisions[selectedDecisionIndex + 1].load
         /\ decisionDetail.round = currentDecisions[selectedDecisionIndex + 1].round
    ELSE decisionDetail.shows # "content"

\* C20: whenever no trades request is in flight and the trades pane shows a
\* page, currentTradesPage is the number of the page shown.
C20_CurrentPageIsShownPage ==
  (tradesInflight = {} /\ TradesPane.shows = "content") =>
    currentTradesPage = TradesPane.page

\* C21: in a rendered detail, every signal has the same visual category in
\* its table row and in its block of the reason panel, and no signal shown
\* with the category wait stands before a signal shown as buy or sell.
C21_CategoriesAgree ==
  decisionDetail.shows = "content" =>
    /\ \A i \in DOMAIN decisionDetail.rows :
         decisionDetail.rows[i].cls = decisionDetail.reasons[i].cls
    /\ \A i, j \in DOMAIN decisionDetail.rows :
         (i < j /\ decisionDetail.rows[i].cls = "wait") =>
           decisionDetail.rows[j].cls = "wait"

\* C22: whenever the detail pane shows a decision, its rows are in the order
\* in which that decision's signals were displayed the first time, however
\* often it was selected and whatever was selected in between.
C22_DisplayOrderRepeats ==
  \A k \in DOMAIN currentDecisions :
    (/\ decisionDetail.shows = "content"
     /\ decisionDetail.load = currentDecisions[k].load
     /\ decisionDetail.round = currentDecisions[k].round) =>
      /\ currentDecisions[k].firstShown # <<>>
      /\ [i \in DOMAIN decisionDetail.rows |-> decisionDetail.rows[i].symbol]
           = currentDecisions[k].firstShown[1]

\* two decisions have both been displayed, the first, whose signals the sort
\* reordered, is selected again after the second
C22_Witness ==
  /\ Len(currentDecisions) = 2
  /\ currentDecisions[1].firstShown = <<(<<2, 1>>)>>
  /\ currentDecisions[2].firstShown # <<>>
  /\ Len(currentDecisions[2].firstShown[1]) = 2
  /\ selectedDecisionIndex = 0
  /\ decisionDetail.round = currentDecisions[1].round
  /\ decisionDetail.load = currentDecisions[1].load
====
